---- MODULE Spec2Model ----
(***************************************************************************)
(* Model of the array-encoded Merkle tree of src/core.go: index            *)
(* arithmetic, the order-independent pair hash, the builder, the proof     *)
(* generator, the proof verifier and the structural validator.             *)
(*                                                                         *)
(* A Node is a byte string: a sequence of numbers in 0..255.  Go slices    *)
(* are indexed from 0 and TLA+ sequences from 1; At(s, i) reads the Go     *)
(* index i.  A nil slice is the empty sequence.                            *)
(***************************************************************************)
EXTENDS Integers, Sequences, FiniteSets

\* ------------------------------------------------------------------ bounds
\* Longest leaf list handed to NewMerkeTree.
MaxLeaves == 4
\* Leaf digests are the 32-byte strings whose last byte is in 0..MaxLeafVal.
MaxLeafVal == 1
\* Single-byte tampering rewrites one of the last MaxTamperPos bytes ...
MaxTamperPos == 1
\* ... to a byte value in 0..MaxTamperByte.
MaxTamperByte == 1
\* Node arrays written out by hand have at most MaxArrayLen nodes.
MaxArrayLen == 3

\* --------------------------------------------------------------- constants
DigestLength == 32

\* ------------------------------------------------------------- byte strings
At(s, i) == s[i + 1]

RECURSIVE Pow256(_)
Pow256(n) == IF n = 0 THEN 1 ELSE 256 * Pow256(n - 1)

\* The big-endian number a byte string spells: the sum of its non-zero
\* bytes, each times its place value.
RECURSIVE PlaceSum(_, _)
PlaceSum(s, ps) ==
    IF ps = {} THEN 0
    ELSE LET p == CHOOSE q \in ps : TRUE
         IN  s[p] * Pow256(Len(s) - p) + PlaceSum(s, ps \ {p})

Num(s) == PlaceSum(s, {p \in 1..Len(s) : s[p] # 0})

\* The DigestLength-byte big-endian string of a number below 2^32.
ToBytes(n) ==
    [p \in 1..DigestLength |->
        IF DigestLength - p < 4 THEN (n \div Pow256(DigestLength - p)) % 256 ELSE 0]

\* bytes.Compare: lexicographic order, -1, 0 or 1, decided by the first
\* position where the two differ; a proper prefix is smaller.
Compare(a, b) ==
    LET n == IF Len(a) < Len(b) THEN Len(a) ELSE Len(b)
        diff == {p \in 1..n : a[p] # b[p]}
    IN  IF diff = {}
        THEN IF Len(a) < Len(b) THEN -1 ELSE IF Len(a) > Len(b) THEN 1 ELSE 0
        ELSE LET p == CHOOSE q \in diff : \A r \in diff : q <= r
             IN  IF a[p] < b[p] THEN -1 ELSE 1

\* ------------------------------------------------------------------ hasher
\* The injected hash.Hash.  Its state is the byte string written since the
\* last Reset.  The digest function is collision free: the input is cut
\* after its first DigestLength bytes and the two parts are paired by
\* Cantor's pairing; a 2*DigestLength-byte input gets an even code, any
\* other input an odd code that also carries its length (below
\* 4*DigestLength).  A code is larger than both parts, so no digest is its
\* own preimage.  An input of 3*DigestLength bytes or more, which only a
\* hasher that was not reset between two writes holds, gets an odd code made
\* of the number of its DigestLength-byte blocks and a checksum of them:
\* such a code is the digest of no shorter input, but two long inputs may
\* share one.
Cantor(x, y) == ((x + y) * (x + y + 1)) \div 2 + y

Split(s) == IF Len(s) > DigestLength THEN DigestLength ELSE Len(s)

Blocks(s) == (Len(s) + DigestLength - 1) \div DigestLength

Block(s, j) ==
    SubSeq(s, (j - 1) * DigestLength + 1,
           IF j * DigestLength < Len(s) THEN j * DigestLength ELSE Len(s))

RECURSIVE BlockSum(_, _)
BlockSum(s, j) ==
    IF j > Blocks(s) THEN 0
    ELSE ((Num(Block(s, j)) % 997) * j + BlockSum(s, j + 1)) % 997

HashCode(s) ==
    LET c == Cantor(Num(SubSeq(s, 1, Split(s))), Num(SubSeq(s, Split(s) + 1, Len(s))))
        d == Cantor(Num(SubSeq(s, 1, Split(s))),
                    Num(SubSeq(s, Split(s) + 1, Len(s))) * (4 * DigestLength) + Len(s))
        e == Cantor(BlockSum(s, 1), Blocks(s) * (4 * DigestLength) + 2 * DigestLength)
    IN  IF Len(s) = 2 * DigestLength THEN 2 * c + 2
        ELSE IF Len(s) < 3 * DigestLength THEN 2 * d + 1
        ELSE 2 * e + 1

Hash(s) == ToBytes(HashCode(s))

Reset(h) == <<>>
Write(h, bytes) == h \o bytes
Sum(h) == Hash(h)

\* Faulty variant of hashPair: the operands are written in argument order.
hashPairUnordered(h, a, b) ==
    LET h2 == Write(Reset(h), a \o b)
    IN  [h |-> h2, v |-> Sum(h2)]

\* Faulty variant of hashPair: the hasher is not reset, the digest covers
\* what earlier calls wrote as well.
hashPairNoReset(h, a, b) ==
    LET buff == IF Compare(a, b) # 1 THEN a \o b ELSE b \o a
        h2 == Write(h, buff)
    IN  [h |-> h2, v |-> Sum(h2)]

\* Tree.hashPair: the digest and the hasher state it leaves behind.
hashPair(h, a, b) ==
    LET h1 == Reset(h)
        buff == IF Compare(a, b) # 1 THEN a \o b ELSE b \o a
        h2 == Write(h1, buff)
    IN  [h |-> h2, v |-> Sum(h2)]

\* --------------------------------------------------------- index arithmetic
leftChildIndex(i) == 2 * i + 1

rightChildIndex(i) == 2 * i + 2

\* Faulty variant of parentIndex: floor(i/2), off by one for even i.
parentIndexFloorHalf(i) ==
    IF i = 0 THEN [v |-> 0, err |-> "root has no parent"]
    ELSE [v |-> i \div 2, err |-> "nil"]

parentIndex(i) ==
    IF i = 0 THEN [v |-> 0, err |-> "root has no parent"]
    ELSE [v |-> (i - 1) \div 2, err |-> "nil"]

siblingIndex(i) ==
    IF i = 0 THEN [v |-> 0, err |-> "root has no siblings"]
    ELSE IF i % 2 = 0 THEN [v |-> i - 1, err |-> "nil"]
    ELSE [v |-> i + 1, err |-> "nil"]

isTreeNode(tree, i) == i >= 0 /\ i < Len(tree.Nodes)

isInternalNode(tree, i) == isTreeNode(tree, leftChildIndex(i))

\* Faulty variant of isLeafNode: every node of the tree counts as a leaf.
isLeafNodeAnyNode(tree, i) == isTreeNode(tree, i)

isLeafNode(tree, i) == isTreeNode(tree, i) /\ ~isInternalNode(tree, i)

isValidMerkleNode(node) == Len(node) = DigestLength

\* Go's & on two's-complement ints: an operand of 0 gives 0 (the only case
\* with a negative operand here is 0 & -1).
RECURSIVE BitAnd(_, _)
BitAnd(x, y) ==
    IF x = 0 \/ y = 0 THEN 0
    ELSE 2 * BitAnd(x \div 2, y \div 2) + (IF x % 2 = 1 /\ y % 2 = 1 THEN 1 ELSE 0)

\* Faulty variant of isPowerOf2: num & (num + 1).
isPowerOf2PlusOne(num) == BitAnd(num, num + 1) = 0

isPowerOf2(num) == BitAnd(num, num - 1) = 0

\* ----------------------------------------------------------------- builder
NoTree == [Hasher |-> "nil", Nodes |-> <<>>, none |-> TRUE]

NilNodes(n) == [j \in 1..n |-> <<>>]

\* for i, leaf := range leaves { tree.Nodes[leavesLength-1+i] = leaf }
RECURSIVE PlaceLeaves(_, _, _)
PlaceLeaves(nodes, leaves, i) ==
    IF i >= Len(leaves) THEN nodes
    ELSE PlaceLeaves([nodes EXCEPT ![Len(leaves) - 1 + i + 1] = At(leaves, i)], leaves, i + 1)

\* Faulty variant of FillInternal: the pass runs top-down, from index 0 to
\* index i, so a parent is hashed before its children are filled.
RECURSIVE FillDown(_, _, _, _)
FillDown(nodes, h, j, i) ==
    IF j > i THEN [Nodes |-> nodes, h |-> h]
    ELSE LET r == hashPair(h, At(nodes, 2 * j + 1), At(nodes, 2 * j + 2))
         IN  FillDown([nodes EXCEPT ![j + 1] = r.v], r.h, j + 1, i)

FillInternalTopDown(nodes, h, i) == FillDown(nodes, h, 0, i)

\* for i := leavesLength - 2; i >= 0; i-- { tree.Nodes[i] = hashPair(...) }
RECURSIVE FillInternal(_, _, _)
FillInternal(nodes, h, i) ==
    IF i < 0 THEN [Nodes |-> nodes, h |-> h]
    ELSE LET r == hashPair(h, At(nodes, leftChildIndex(i)), At(nodes, rightChildIndex(i)))
         IN  FillInternal([nodes EXCEPT ![i + 1] = r.v], r.h, i - 1)

\* Faulty variant of NewMerkeTree: the hasher is checked first.
NewMerkeTreeHasherFirst(hasher, h, leaves) ==
    LET leavesLength == Len(leaves) IN
    IF hasher = "nil"
    THEN [tree |-> NoTree, err |-> "no hasher", h |-> h]
    ELSE IF leavesLength = 0
    THEN [tree |-> NoTree, err |-> "empty leaves", h |-> h]
    ELSE IF ~isPowerOf2(Len(leaves))
    THEN [tree |-> NoTree, err |-> "only support complete binary tree", h |-> h]
    ELSE IF \E i \in 0..(leavesLength - 1) : ~isValidMerkleNode(At(leaves, i))
    THEN [tree |-> NoTree, err |-> "node's byte length is not 32", h |-> h]
    ELSE LET placed == PlaceLeaves(NilNodes(2 * leavesLength - 1), leaves, 0)
             filled == FillInternal(placed, h, leavesLength - 2)
         IN  [tree |-> [Hasher |-> hasher, Nodes |-> filled.Nodes, none |-> FALSE],
              err |-> "nil", h |-> filled.h]

\* hasher is "nil" or "h", the reference to the one hasher whose state is h.
NewMerkeTree(hasher, h, leaves) ==
    LET leavesLength == Len(leaves) IN
    IF leavesLength = 0
    THEN [tree |-> NoTree, err |-> "empty leaves", h |-> h]
    ELSE IF ~isPowerOf2(Len(leaves))
    THEN [tree |-> NoTree, err |-> "only support complete binary tree", h |-> h]
    ELSE IF \E i \in 0..(leavesLength - 1) : ~isValidMerkleNode(At(leaves, i))
    THEN [tree |-> NoTree, err |-> "node's byte length is not 32", h |-> h]
    ELSE IF hasher = "nil"
    THEN [tree |-> NoTree, err |-> "no hasher", h |-> h]
    ELSE LET placed == PlaceLeaves(NilNodes(2 * leavesLength - 1), leaves, 0)
             filled == FillInternal(placed, h, leavesLength - 2)
         IN  [tree |-> [Hasher |-> hasher, Nodes |-> filled.Nodes, none |-> FALSE],
              err |-> "nil", h |-> filled.h]

\* ---------------------------------------------------------- proof generator
\* Faulty variant of ProofWalk: the walk moves to the parent before it reads
\* the sibling.
RECURSIVE ProofWalkParentFirst(_, _, _)
ProofWalkParentFirst(tree, proof, i) ==
    IF i > 0
    THEN LET up == parentIndex(i).v
         IN  ProofWalkParentFirst(tree, Append(proof, At(tree.Nodes, siblingIndex(up).v)), up)
    ELSE proof

RECURSIVE ProofWalk(_, _, _)
ProofWalk(tree, proof, i) ==
    IF i > 0
    THEN ProofWalk(tree, Append(proof, At(tree.Nodes, siblingIndex(i).v)), parentIndex(i).v)
    ELSE proof

GetProofByIndex(tree, i) ==
    IF ~isLeafNode(tree, i) THEN [proof |-> <<>>, err |-> "not a leaf node"]
    ELSE [proof |-> ProofWalk(tree, <<>>, i), err |-> "nil"]

\* Faulty variant of ScanLeaf: the scan does not stop at the first match and
\* ends on the last one.
RECURSIVE ScanLeafLast(_, _, _)
ScanLeafLast(tree, leaf, i) ==
    IF i < Len(tree.Nodes)
    THEN LET rest == ScanLeafLast(tree, leaf, i + 1)
         IN  IF rest < Len(tree.Nodes) THEN rest
             ELSE IF Compare(leaf, At(tree.Nodes, i)) = 0 THEN i ELSE rest
    ELSE i

\* The index the scan of GetProof stops at: the first match from i on, or
\* len(tree.Nodes) when there is none.
RECURSIVE ScanLeaf(_, _, _)
ScanLeaf(tree, leaf, i) ==
    IF i < Len(tree.Nodes)
    THEN IF Compare(leaf, At(tree.Nodes, i)) = 0 THEN i ELSE ScanLeaf(tree, leaf, i + 1)
    ELSE i

GetProof(tree, leaf) ==
    LET leafBeginIndex == Len(tree.Nodes) \div 2
        i == ScanLeaf(tree, leaf, leafBeginIndex)
        found == i < Len(tree.Nodes)
    IN  IF ~found THEN [proof |-> <<>>, err |-> "not a leaf node"]
        ELSE GetProofByIndex(tree, i)

\* ----------------------------------------------------------- proof verifier
RECURSIVE FoldProof(_, _, _, _)
FoldProof(h, node, proof, i) ==
    IF i < Len(proof)
    THEN LET r == hashPair(h, node, At(proof, i)) IN FoldProof(r.h, r.v, proof, i + 1)
    ELSE [node |-> node, h |-> h]

\* Faulty variant of ProcessProof: the length of a proof element is checked
\* only when the fold reaches it.
RECURSIVE FoldProofLazy(_, _, _, _)
FoldProofLazy(h, node, proof, i) ==
    IF i < Len(proof)
    THEN IF ~isValidMerkleNode(At(proof, i))
         THEN [node |-> <<>>, err |-> "not a merkle node ", h |-> h]
         ELSE LET r == hashPair(h, node, At(proof, i))
              IN  FoldProofLazy(r.h, r.v, proof, i + 1)
    ELSE [node |-> node, err |-> "nil", h |-> h]

ProcessProofLazy(tree, h, leaf, proof) ==
    IF ~isValidMerkleNode(leaf)
    THEN [node |-> <<>>, err |-> "not a merkle node ", h |-> h]
    ELSE FoldProofLazy(h, leaf, proof, 0)

ProcessProof(tree, h, leaf, proof) ==
    IF ~isValidMerkleNode(leaf)
    THEN [node |-> <<>>, err |-> "not a merkle node ", h |-> h]
    ELSE IF \E i \in 0..(Len(proof) - 1) : ~isValidMerkleNode(At(proof, i))
    THEN [node |-> <<>>, err |-> "not a merkle node ", h |-> h]
    ELSE LET r == FoldProof(h, leaf, proof, 0)
         IN  [node |-> r.node, err |-> "nil", h |-> r.h]

\* ------------------------------------------------------ structural validator
\* Faulty variant of CheckNodes: the loop returns after its first node.
CheckNodesFirstOnly(tree, h, i) ==
    LET treeLength == Len(tree.Nodes) IN
    IF i >= treeLength THEN [ok |-> treeLength > 0, h |-> h]
    ELSE LET node == At(tree.Nodes, i)
             l == leftChildIndex(i)
             r == rightChildIndex(i)
         IN  IF ~isValidMerkleNode(node) THEN [ok |-> FALSE, h |-> h]
             ELSE IF r >= treeLength
             THEN [ok |-> l >= treeLength, h |-> h]
             ELSE LET hp == hashPair(h, At(tree.Nodes, l), At(tree.Nodes, r))
                  IN  [ok |-> Compare(node, hp.v) = 0, h |-> hp.h]

\* for i, node := range tree.Nodes { ... }, with its early returns.
RECURSIVE CheckNodes(_, _, _)
CheckNodes(tree, h, i) ==
    LET treeLength == Len(tree.Nodes) IN
    IF i >= treeLength THEN [ok |-> treeLength > 0, h |-> h]
    ELSE LET node == At(tree.Nodes, i)
             l == leftChildIndex(i)
             r == rightChildIndex(i)
         IN  IF ~isValidMerkleNode(node) THEN [ok |-> FALSE, h |-> h]
             ELSE IF r >= treeLength
             THEN IF l < treeLength THEN [ok |-> FALSE, h |-> h]
                  ELSE CheckNodes(tree, h, i + 1)
             ELSE LET hp == hashPair(h, At(tree.Nodes, l), At(tree.Nodes, r))
                  IN  IF Compare(node, hp.v) # 0 THEN [ok |-> FALSE, h |-> hp.h]
                      ELSE CheckNodes(tree, hp.h, i + 1)

\* Faulty variant of isValidMerkleTree: the length of the array is not
\* checked before the nodes are.
isValidMerkleTreeNoShapeCheck(tree, h) == CheckNodes(tree, h, 0)

isValidMerkleTree(tree, h) ==
    IF ~isPowerOf2(Len(tree.Nodes) + 1) THEN [ok |-> FALSE, h |-> h]
    ELSE CheckNodes(tree, h, 0)

Verify(tree, h) == isValidMerkleTree(tree, h)

\* ------------------------------------------------------------ state machine
\* tree    the Tree the client holds (NoTree before a successful build)
\* hasher  the state of the hasher the tree refers to
\* leaves  the leaf list the client handed to the last NewMerkeTree call
\* last    the last call: its name, its arguments and what it returned
\* race    two callers inside hashPair at the same time, and their hashers
VARIABLES tree, hasher, leaves, last, race

vars == <<tree, hasher, leaves, last, race>>

Range(s) == {s[j] : j \in 1..Len(s)}

Digest(v) == ToBytes(v)

\* A 31-byte value, too short to be a digest.
ShortNode == SubSeq(ToBytes(1), 2, DigestLength)

LeafUniverse == {Digest(v) : v \in 0..MaxLeafVal} \cup {ShortNode}

LeafLists == UNION {[1..n -> LeafUniverse] : n \in 0..MaxLeaves}

\* Values a client passes as a leaf or a proof element: every node of its
\* tree, a digest outside the leaf universe and the short value.
Candidates == Range(tree.Nodes) \cup {Digest(MaxLeafVal + 1), ShortNode}

LeafIndexes == {i \in 0..(Len(tree.Nodes) - 1) : isLeafNode(tree, i)}

\* The leaves of the tree and the two values outside it.
LeafLevel == {At(tree.Nodes, i) : i \in LeafIndexes} \cup {Digest(MaxLeafVal + 1), ShortNode}

\* Proofs a client passes with a value: the empty one, and the sibling path
\* of every node holding that value (for a leaf, the proof the tree returns;
\* for an internal node, the tail of such a proof); with a value that is no
\* node of the tree, the proof of the first leaf.
Proofs(leaf) ==
    {<<>>}
        \cup {ProofWalk(tree, <<>>, j) :
                 j \in {i \in 0..(Len(tree.Nodes) - 1) : At(tree.Nodes, i) = leaf}}
        \cup (IF leaf \in Range(tree.Nodes) THEN {}
              ELSE {GetProofByIndex(tree, Len(tree.Nodes) \div 2).proof})

\* Malformed proofs: the proof of a leaf with the short value put in the
\* place of one of its elements.
ShortProofs(leaf) ==
    UNION {{[ProofWalk(tree, <<>>, j) EXCEPT ![p] = ShortNode] :
               p \in 1..Len(ProofWalk(tree, <<>>, j))} :
           j \in {i \in LeafIndexes : At(tree.Nodes, i) = leaf}}

Call(op) ==
    [op |-> op, ref |-> "h", i |-> 0, a |-> <<>>, b |-> <<>>, proof |-> <<>>,
     out |-> <<>>, out2 |-> <<>>, ok |-> TRUE, err |-> "nil"]

\* A caller of hashPair(a, b): where it stands in the body (before the
\* Reset, before the Write, before the Sum, or returned) and what it returned.
Caller(a, b) == [pc |-> "reset", a |-> a, b |-> b, out |-> <<>>]

\* Nobody is inside hashPair.
NoRace == [shared |-> FALSE, hashers |-> <<>>, callers |-> <<>>]

Init ==
    /\ tree = NoTree
    /\ hasher = <<>>
    /\ leaves = <<>>
    /\ last = Call("none")
    /\ race = NoRace

\* tree, err := NewMerkeTree(sha3.NewLegacyKeccak256() or nil, ls)
Build ==
    /\ tree.none
    /\ last.op = "none"
    /\ \E ref \in {"h", "nil"}, ls \in LeafLists :
          LET r == NewMerkeTree(ref, <<>>, ls) IN
          /\ tree' = r.tree
          /\ hasher' = r.h
          /\ leaves' = ls
          /\ last' = [Call("NewMerkeTree") EXCEPT !.ref = ref, !.err = r.err]
    /\ UNCHANGED race

\* The client drops what NewMerkeTree returned: the tree and its hasher, or
\* the error.
Discard ==
    /\ last.op # "none"
    /\ tree' = NoTree
    /\ hasher' = <<>>
    /\ leaves' = <<>>
    /\ last' = Call("none")
    /\ UNCHANGED race

CallGetProofByIndex ==
    /\ ~tree.none
    /\ \E i \in -1..(2 * MaxLeaves - 1) :
          LET r == GetProofByIndex(tree, i) IN
          last' = [Call("GetProofByIndex") EXCEPT !.i = i, !.out = r.proof, !.err = r.err]
    /\ UNCHANGED <<tree, hasher, leaves, race>>

CallGetProof ==
    /\ ~tree.none
    /\ \E leaf \in Candidates :
          LET r == GetProof(tree, leaf) IN
          last' = [Call("GetProof") EXCEPT !.a = leaf, !.out = r.proof, !.err = r.err]
    /\ UNCHANGED <<tree, hasher, leaves, race>>

CallProcessProof ==
    /\ ~tree.none
    /\ \E leaf \in Candidates : \E proof \in Proofs(leaf) \cup ShortProofs(leaf) :
          LET r == ProcessProof(tree, hasher, leaf, proof) IN
          /\ last' = [Call("ProcessProof") EXCEPT
                         !.a = leaf, !.proof = proof, !.out = r.node, !.err = r.err]
          /\ hasher' = r.h
    /\ UNCHANGED <<tree, leaves, race>>

CallVerify ==
    /\ ~tree.none
    /\ LET r == Verify(tree, hasher) IN
          /\ last' = [Call("Verify") EXCEPT !.ok = r.ok]
          /\ hasher' = r.h
    /\ UNCHANGED <<tree, leaves, race>>

\* h1 := tree.hashPair(a, b); h2 := tree.hashPair(b, a)
CallHashPair ==
    /\ ~tree.none
    /\ \E a \in LeafLevel, b \in LeafLevel :
          LET r1 == hashPair(hasher, a, b)
              r2 == hashPair(r1.h, b, a)
          IN  /\ last' = [Call("hashPair") EXCEPT
                             !.a = a, !.b = b, !.out = r1.v, !.out2 = r2.v]
              /\ hasher' = r2.h
    /\ UNCHANGED <<tree, leaves, race>>

\* Byte p of the node at index i rewritten to byte value v.
Tampered(t, i, p, v) ==
    [t EXCEPT !.Nodes[i + 1][p] = v]

\* The client copies a tree that verifies, rewrites one byte of one node of
\* the copy to a different value and calls Verify on the copy, which shares
\* the hasher.
CallVerifyTampered ==
    /\ ~tree.none
    /\ Verify(tree, hasher).ok
    /\ \E i \in 0..(Len(tree.Nodes) - 1),
          p \in (DigestLength - MaxTamperPos + 1)..DigestLength,
          v \in 0..MaxTamperByte :
          /\ At(tree.Nodes, i)[p] # v
          /\ LET t == Tampered(tree, i, p, v)
                  r == Verify(t, hasher)
              IN  /\ last' = [Call("VerifyTampered") EXCEPT
                                 !.i = i, !.a = At(t.Nodes, i), !.ok = r.ok]
                  /\ hasher' = r.h
    /\ UNCHANGED <<tree, leaves, race>>

\* Values of the nodes of a Tree literal: the leaf universe and the pair
\* hashes of its digests.
NodeUniverse ==
    LeafUniverse
        \cup {hashPair(<<>>, Digest(v), Digest(w)).v : v \in 0..MaxLeafVal, w \in 0..MaxLeafVal}

\* The node arrays a client writes out: every array over the node universe,
\* and every three nodes headed by the pair hash of the other two, the short
\* value included.
NodeArrays ==
    UNION {[1..n -> NodeUniverse] : n \in 0..MaxArrayLen}
        \cup {<<hashPair(<<>>, a, b).v, a, b>> : a \in LeafUniverse, b \in LeafUniverse}

\* tree := &Tree{Hasher: ..., Nodes: nodes}; tree.Verify()
CallVerifyLiteral ==
    /\ tree.none
    /\ last.op = "none"
    /\ \E nodes \in NodeArrays :
          LET t == [Hasher |-> "h", Nodes |-> nodes, none |-> FALSE]
              r == Verify(t, hasher)
          IN  /\ last' = [Call("VerifyLiteral") EXCEPT !.proof = nodes, !.ok = r.ok]
              /\ hasher' = r.h
    /\ UNCHANGED <<tree, leaves, race>>

\* Node arrays cut from a built tree: its prefixes of every length, the
\* array with one node appended, and the array with the short value in the
\* place of one node.
Resized(nodes) ==
    {SubSeq(nodes, 1, n) : n \in 0..Len(nodes)}
        \cup {Append(nodes, nodes[Len(nodes)])}
        \cup {[nodes EXCEPT ![j] = ShortNode] : j \in 1..Len(nodes)}

\* The client copies the node array of its tree into a Tree literal of
\* another length or with a short node and calls Verify on it; the literal
\* shares the hasher.
CallVerifyResized ==
    /\ ~tree.none
    /\ \E nodes \in Resized(tree.Nodes) :
          LET t == [tree EXCEPT !.Nodes = nodes]
              r == Verify(t, hasher)
          IN  /\ last' = [Call("VerifyResized") EXCEPT !.proof = nodes, !.ok = r.ok]
              /\ hasher' = r.h
    /\ UNCHANGED <<tree, leaves, race>>

\* ------------------------------------------------- two concurrent callers
\* Two goroutines call hashPair at the same time, as ProcessProof, Verify
\* and NewMerkeTree do for every pair they hash: both on one Tree, or on
\* two Trees built with the same hasher instance (shared), or on two Trees
\* built with a hasher each.  Nothing in hashPair synchronises, so the
\* calls of Reset, Write and Sum of the two interleave in any order; a
\* method call on the hasher is one step.
RaceOperands == {Digest(v) : v \in 0..MaxLeafVal}

InitRace ==
    /\ tree = NoTree
    /\ hasher = <<>>
    /\ leaves = <<>>
    /\ last = Call("none")
    /\ \E shared \in BOOLEAN :
       \E a1 \in RaceOperands, b1 \in RaceOperands, a2 \in RaceOperands, b2 \in RaceOperands :
          race = [shared |-> shared,
                  hashers |-> <<<<>>, <<>>>>,
                  callers |-> <<Caller(a1, b1), Caller(a2, b2)>>]

\* Faulty variant of HasherOf: every tree is given one and the same hasher.
HasherOfSingleton(shared, c) == 1

\* tree.Hasher of caller c: the hasher its tree was built with.
HasherOf(shared, c) == IF shared THEN 1 ELSE c

\* buff of hashPair: the operands, the smaller first.
PairBuffer(a, b) == IF Compare(a, b) # 1 THEN a \o b ELSE b \o a

\* tree.Hasher.Reset()
RaceReset(c) ==
    /\ race.callers[c].pc = "reset"
    /\ LET k == HasherOf(race.shared, c) IN
          race' = [race EXCEPT !.hashers[k] = Reset(@), !.callers[c].pc = "write"]
    /\ UNCHANGED <<tree, hasher, leaves, last>>

\* buff := ...; tree.Hasher.Write(buff.Bytes())
RaceWrite(c) ==
    /\ race.callers[c].pc = "write"
    /\ LET k == HasherOf(race.shared, c) IN
          race' = [race EXCEPT
                      !.hashers[k] = Write(@, PairBuffer(race.callers[c].a, race.callers[c].b)),
                      !.callers[c].pc = "sum"]
    /\ UNCHANGED <<tree, hasher, leaves, last>>

\* return tree.Hasher.Sum(nil)
RaceSum(c) ==
    /\ race.callers[c].pc = "sum"
    /\ LET k == HasherOf(race.shared, c) IN
          race' = [race EXCEPT
                      !.callers[c].out = Sum(race.hashers[k]),
                      !.callers[c].pc = "done"]
    /\ UNCHANGED <<tree, hasher, leaves, last>>

NextRace ==
    \E c \in 1..2 :
        \/ RaceReset(c)
        \/ RaceWrite(c)
        \/ RaceSum(c)

SpecRace == InitRace /\ [][NextRace]_vars

\* The client of the proof API.
Next ==
    \/ Build
    \/ Discard
    \/ CallGetProofByIndex
    \/ CallGetProof
    \/ CallProcessProof
    \/ CallVerify

Spec == Init /\ [][Next]_vars

\* The client that exercises the pair hash and the validator.
NextHash ==
    \/ Build
    \/ Discard
    \/ CallHashPair
    \/ CallVerify
    \/ CallVerifyTampered

SpecHash == Init /\ [][NextHash]_vars

\* The client that calls Verify on node arrays of any shape.
NextVerify ==
    \/ Build
    \/ Discard
    \/ CallVerify
    \/ CallVerifyLiteral
    \/ CallVerifyResized

SpecVerify == Init /\ [][NextVerify]_vars

\* ------------------------------------------------------------------ claims
Built == ~tree.none

\* The number of leaves of the built tree.
K == Len(leaves)

Node(i) == At(tree.Nodes, i)

Root == Node(0)

LeafRange == (K - 1)..(2 * K - 2)

IsPow2(n) == \E e \in 0..n : 2 ^ e = n

AllDigests(ls) == \A j \in 1..Len(ls) : Len(ls[j]) = DigestLength

\* C1. Round trip by index: on a tree built from k leaves, GetProofByIndex
\* succeeds for every index i in [k-1, 2k-2], and ProcessProof of Nodes[i]
\* with the proof returned for i succeeds and returns the root Nodes[0].
C1_RoundTripByIndex ==
    /\ (Built /\ last.op = "GetProofByIndex" /\ last.i \in LeafRange)
          => last.err = "nil"
    /\ (Built /\ last.op = "ProcessProof"
          /\ \E i \in LeafRange :
                /\ last.a = Node(i)
                /\ last.proof = GetProofByIndex(tree, i).proof)
          => (last.err = "nil" /\ last.out = Root)

C1_Witness ==
    /\ Built /\ K = 4
    /\ last.op = "ProcessProof"
    /\ last.a = Node(5)
    /\ last.proof = GetProofByIndex(tree, 5).proof
    /\ Len(last.proof) = 2
    /\ Node(5) # Node(6)
    /\ last.out = Root

\* C2. For every non-empty leaf list whose length is a power of two and
\* whose elements are all 32-byte digests, with a non-nil hasher,
\* NewMerkeTree succeeds, and Verify on the tree it returned is true.
C2_BuildThenVerify ==
    /\ (last.op = "NewMerkeTree" /\ last.ref # "nil"
          /\ Len(leaves) > 0 /\ IsPow2(Len(leaves)) /\ AllDigests(leaves))
          => (last.err = "nil" /\ Built)
    /\ (Built /\ last.op = "Verify") => last.ok

C2_Witness ==
    /\ Built /\ K = 4
    /\ last.op = "Verify"
    /\ last.ok
    /\ Node(3) # Node(4)

\* C3. Layout of a built tree: for k input leaves the node array has
\* exactly 2k-1 entries, Nodes[k-1+j] is the j-th input leaf and, for every
\* i in [0, k-2], Nodes[i] is hashPair(Nodes[2i+1], Nodes[2i+2]); no node is
\* left unfilled (every node is a 32-byte digest).
C3_Layout ==
    Built =>
        /\ Len(tree.Nodes) = 2 * K - 1
        /\ \A j \in 0..(K - 1) : Node(K - 1 + j) = At(leaves, j)
        /\ \A i \in 0..(K - 2) :
              Node(i) = hashPair(<<>>, Node(2 * i + 1), Node(2 * i + 2)).v
        /\ \A i \in 0..(2 * K - 2) : Len(Node(i)) = DigestLength

C3_Witness ==
    /\ Built /\ K = 4
    /\ last.op = "NewMerkeTree"
    /\ At(leaves, 0) # At(leaves, 1)
    /\ Node(1) # Node(2)

\* C4. hashPair is order independent: hashPair(a, b) = hashPair(b, a), also
\* for a = b, and the value is the hash of the concatenation with the
\* byte-wise smaller operand first.
C4_HashPairOrderIndependent ==
    last.op = "hashPair" =>
        /\ last.out = last.out2
        /\ LET lo == IF Compare(last.a, last.b) <= 0 THEN last.a ELSE last.b
               hi == IF Compare(last.a, last.b) <= 0 THEN last.b ELSE last.a
           IN  last.out = Hash(lo \o hi)

C4_Witness ==
    /\ last.op = "hashPair"
    /\ Len(last.a) = DigestLength /\ Len(last.b) = DigestLength
    /\ Compare(last.a, last.b) = 1
    /\ last.out = last.out2

\* The leaf-range indexes whose node is byte-equal to a value.
Matches(leaf) == {i \in LeafRange : Node(i) = leaf}

Lowest(S) == CHOOSE i \in S : \A j \in S : i <= j

\* C5. Proof by value agrees with proof by index: GetProof(leaf) returns the
\* proof GetProofByIndex returns for the lowest leaf-range index whose node
\* is byte-equal to leaf, that proof replays through ProcessProof(leaf, .)
\* to the root, and GetProof fails with 'not a leaf node' exactly when no
\* leaf-range node equals leaf.
C5_ProofByValue ==
    /\ (Built /\ last.op = "GetProof") =>
          IF Matches(last.a) = {}
          THEN last.err = "not a leaf node" /\ last.out = <<>>
          ELSE /\ last.err = "nil"
               /\ last.out = GetProofByIndex(tree, Lowest(Matches(last.a))).proof
               /\ GetProofByIndex(tree, Lowest(Matches(last.a))).err = "nil"
    /\ (Built /\ last.op = "ProcessProof"
          /\ GetProof(tree, last.a).err = "nil"
          /\ last.proof = GetProof(tree, last.a).proof)
          => (last.err = "nil" /\ last.out = Root)

C5_Witness ==
    /\ Built /\ K = 4
    /\ last.op = "GetProof"
    /\ last.err = "nil"
    /\ Matches(last.a) = {3, 4, 6}
    /\ last.out = <<Node(4), Node(2)>>
    /\ last.out # GetProofByIndex(tree, 6).proof

\* The digests committed by the tree: the nodes in its leaf range.
LeafSet == {Node(i) : i \in LeafRange}

\* C6. Inclusion soundness: on a built tree, whenever ProcessProof(x, p)
\* returns the root Nodes[0], for any proof p including the empty one, x is
\* one of the tree's leaf digests.
C6_InclusionSoundness ==
    (Built /\ last.op = "ProcessProof" /\ last.err = "nil" /\ last.out = Root)
        => last.a \in LeafSet

\* C7. Tamper detection, as claimed: on every tree that verifies, a
\* single leaf included, rewriting one byte of one node makes Verify false.
C7_TamperDetectedAnyTree ==
    (Built /\ last.op = "VerifyTampered") => ~last.ok

\* C7, amended. On every tree of at least two leaves that verifies,
\* rewriting one byte of one node (root, internal or leaf) makes Verify
\* false; a single-leaf tree has no second node to contradict the change.
C7_TamperDetected ==
    (Built /\ last.op = "VerifyTampered" /\ K >= 2) => ~last.ok

C7_Witness ==
    /\ Built /\ K = 4
    /\ last.op = "VerifyTampered"
    /\ last.i = 6
    /\ last.a # Node(6)
    /\ ~last.ok

\* The error NewMerkeTree owes its caller: the first failed check in the
\* order empty, shape, digest length, hasher.
ExpectedBuildErr(ref, ls) ==
    IF Len(ls) = 0 THEN "empty leaves"
    ELSE IF ~IsPow2(Len(ls)) THEN "only support complete binary tree"
    ELSE IF ~AllDigests(ls) THEN "node's byte length is not 32"
    ELSE IF ref = "nil" THEN "no hasher"
    ELSE "nil"

\* C8. Builder error outcomes: NewMerkeTree returns an error and no tree
\* exactly when the leaf list is empty, its length is no power of two, some
\* leaf is not 32 bytes or the hasher is nil; the error is that of the first
\* of these conditions that holds, and the hasher is left untouched on
\* every error path.
C8_BuilderErrors ==
    last.op = "NewMerkeTree" =>
        /\ last.err = ExpectedBuildErr(last.ref, leaves)
        /\ (last.err # "nil") => (tree = NoTree /\ hasher = <<>>)
        /\ (last.err = "nil") => Built

C8_Witness ==
    /\ last.op = "NewMerkeTree"
    /\ Len(leaves) = 3
    /\ ~AllDigests(leaves)
    /\ last.ref = "nil"
    /\ last.err = "only support complete binary tree"
    /\ tree = NoTree

\* C9, as claimed. GetProofByIndex(0) fails with 'not a leaf node' and
\* returns no proof on every built tree, a single-leaf tree included.
C9_RootIsNoLeafAnyTree ==
    (Built /\ last.op = "GetProofByIndex" /\ last.i = 0)
        => (last.err = "not a leaf node" /\ last.out = <<>>)

\* C9, amended. GetProofByIndex(0) fails with 'not a leaf node' and returns
\* no proof on every tree built from at least two leaves; on a single-leaf
\* tree index 0 is the leaf and the call returns the empty proof.
C9_RootIsNoLeaf ==
    /\ (Built /\ last.op = "GetProofByIndex" /\ last.i = 0 /\ K >= 2)
          => (last.err = "not a leaf node" /\ last.out = <<>>)
    /\ (Built /\ last.op = "GetProofByIndex" /\ last.i = 0 /\ K = 1)
          => (last.err = "nil" /\ last.out = <<>>)

C9_Witness ==
    /\ Built /\ K = 4
    /\ last.op = "GetProofByIndex"
    /\ last.i = 0
    /\ last.err = "not a leaf node"

\* C10, as claimed. In the 7-node tree built from 4 leaves the proof
\* returned for index 3 is <<Nodes[4], Nodes[1]>>.
C10_ProofOfIndex3AsClaimed ==
    (Built /\ K = 4 /\ last.op = "GetProofByIndex" /\ last.i = 3)
        => last.out = <<Node(4), Node(1)>>

\* C10, amended. In the 7-node tree built from 4 leaves the proof returned
\* for index 3 is <<Nodes[4], Nodes[2]>>, the sibling and then the parent's
\* sibling, and ProcessProof(Nodes[3], that proof) returns the root.
C10_ProofOfIndex3 ==
    /\ (Built /\ K = 4 /\ last.op = "GetProofByIndex" /\ last.i = 3)
          => (last.err = "nil" /\ last.out = <<Node(4), Node(2)>>)
    /\ (Built /\ K = 4 /\ last.op = "ProcessProof"
          /\ last.a = Node(3) /\ last.proof = <<Node(4), Node(2)>>)
          => (last.err = "nil" /\ last.out = Root)

C10_Witness ==
    /\ Built /\ K = 4
    /\ last.op = "ProcessProof"
    /\ last.a = Node(3)
    /\ last.proof = <<Node(4), Node(2)>>
    /\ Node(1) # Node(2)
    /\ Cardinality(LeafSet) = 2
    /\ last.out = Root

\* The left fold of hashPair over a leaf and a proof, each pair hashed on a
\* hasher of its own.
RECURSIVE LeftFold(_, _)
LeftFold(leaf, proof) ==
    IF proof = <<>> THEN leaf
    ELSE hashPair(<<>>, LeftFold(leaf, SubSeq(proof, 1, Len(proof) - 1)),
                  proof[Len(proof)]).v

Malformed(leaf, proof) ==
    Len(leaf) # DigestLength \/ \E j \in 1..Len(proof) : Len(proof[j]) # DigestLength

\* C11: a ProcessProof call whose leaf or whose proof element at any position
\* is not 32 bytes long fails with "not a merkle node ", returns no digest and
\* leaves the hasher as it found it (every length is checked before any pair
\* is hashed); any other call succeeds and returns the left fold of hashPair
\* over the leaf and the proof elements in order, which for the empty proof
\* is the leaf itself.
C11_ValidateThenFold ==
    [][(Built /\ last'.op = "ProcessProof") =>
          IF Malformed(last'.a, last'.proof)
          THEN /\ last'.err = "not a merkle node "
               /\ last'.out = <<>>
               /\ hasher' = hasher
          ELSE /\ last'.err = "nil"
               /\ last'.out = LeftFold(last'.a, last'.proof)
               /\ (last'.proof = <<>> => last'.out = last'.a)]_vars

\* A two-element proof whose last element is short was refused after an
\* earlier call had hashed.
C11_Witness ==
    /\ Built
    /\ last.op = "ProcessProof"
    /\ Len(last.proof) = 2
    /\ Len(last.a) = DigestLength
    /\ Len(last.proof[1]) = DigestLength
    /\ Len(last.proof[2]) # DigestLength
    /\ last.err = "not a merkle node "
    /\ hasher # NewMerkeTree("h", <<>>, leaves).h

\* The structure of a valid node array: not empty, one node short of a power
\* of two, every node a digest, every node with two children the pair hash
\* of them.
Structural(nodes) ==
    /\ Len(nodes) > 0
    /\ IsPow2(Len(nodes) + 1)
    /\ \A j \in 1..Len(nodes) : Len(nodes[j]) = DigestLength
    /\ \A i \in 0..(Len(nodes) - 1) :
          2 * i + 2 < Len(nodes) =>
              At(nodes, i) = hashPair(<<>>, At(nodes, 2 * i + 1), At(nodes, 2 * i + 2)).v

VerifiedArray ==
    IF last.op = "Verify" THEN tree.Nodes ELSE last.proof

\* C12: Verify is an exact structural check. For any node array it returns
\* true if and only if the array is not empty, its length plus one is a
\* power of two, every node is 32 bytes long and every node i with
\* 2i+2 < length is hashPair(Nodes[2i+1], Nodes[2i+2]); so it returns false
\* for the empty array, for 2 nodes, and for 3 nodes whose root is not the
\* pair hash of the other two.
C12_VerifyIsStructural ==
    /\ last.op \in {"Verify", "VerifyLiteral", "VerifyResized"} =>
          (last.ok <=> Structural(VerifiedArray))
    /\ (last.op = "VerifyLiteral" /\ Len(last.proof) \in {0, 2}) => ~last.ok
    /\ (last.op = "VerifyLiteral" /\ Len(last.proof) = 3
          /\ last.proof[1] # hashPair(<<>>, last.proof[2], last.proof[3]).v) => ~last.ok

\* Three nodes written out by hand, the first the pair hash of two different
\* digests, verify.
C12_Witness ==
    /\ last.op = "VerifyLiteral"
    /\ Len(last.proof) = 3
    /\ last.proof[2] # last.proof[3]
    /\ last.ok

\* The tree as NewMerkeTree returned it, and the hasher as it left it.
FreshTree == NewMerkeTree("h", <<>>, leaves).tree

BuiltHasher == NewMerkeTree("h", <<>>, leaves).h

\* What the last call returned is what the same call returns on the tree
\* with the hasher in state h.
SameResultOn(h) ==
    /\ last.op = "ProcessProof" =>
          LET r == ProcessProof(tree, h, last.a, last.proof)
          IN  last.out = r.node /\ last.err = r.err
    /\ last.op = "Verify" => last.ok = Verify(tree, h).ok
    /\ last.op = "GetProofByIndex" =>
          LET r == GetProofByIndex(tree, last.i)
          IN  last.out = r.proof /\ last.err = r.err
    /\ last.op = "GetProof" =>
          LET r == GetProof(tree, last.a)
          IN  last.out = r.proof /\ last.err = r.err

\* C13: queries are pure.  A GetProofByIndex, GetProof, ProcessProof or
\* Verify call on a built tree, successful or failing, after any sequence of
\* such calls, leaves the node array as it was, and returns what the same
\* call returns on the freshly built tree and on the tree with a new hasher:
\* no result depends on what earlier calls left in the hasher.
C13_QueriesArePure ==
    Built =>
        /\ tree = FreshTree
        /\ SameResultOn(BuiltHasher)
        /\ SameResultOn(<<>>)

\* A proof was handed out for a leaf of a four-leaf tree after an earlier
\* replay or Verify had left the hasher in another state than the builder
\* did.
C13_Witness ==
    /\ Built /\ K = 4
    /\ last.op = "GetProof"
    /\ last.err = "nil"
    /\ Len(last.out) = 2
    /\ hasher # BuiltHasher

Returned(c) == race.callers # <<>> /\ race.callers[c].pc = "done"

\* What hashPair returns to caller c when nobody else runs.
Sequential(c) == hashPair(<<>>, race.callers[c].a, race.callers[c].b).v

\* C14: hashPair calls Reset, Write and Sum on the hasher of its tree as
\* separate steps with nothing to synchronise them.  When two callers run it
\* at the same time on a hasher each, every interleaving returns to both
\* what hashPair returns sequentially; on one shared hasher there is an
\* interleaving in which a caller is handed a digest that is not the hash of
\* its own ordered pair (C14_Witness).
C14_OwnHasherIsSequential ==
    \A c \in 1..2 :
        (Returned(c) /\ ~race.shared) => race.callers[c].out = Sequential(c)

\* On a shared hasher both callers have returned; the first hashed two
\* different digests and was handed a digest that is not the hash of its
\* pair, the second was handed the right one.
C14_Witness ==
    /\ Returned(1) /\ Returned(2)
    /\ race.shared
    /\ race.callers[1].a # race.callers[1].b
    /\ race.callers[1].out # Sequential(1)
    /\ race.callers[2].out = Sequential(2)
====
